---- MODULE Spec2Model ----
(***************************************************************************)
(* The two Puyo boards of the repository as one state machine:             *)
(*   - SimpleBitBoardPuyoBoard (core/src/bitboard.rs): one u64 per column, *)
(*     3 bits per row;                                                      *)
(*   - Board (src/bitboard.rs): seven u128 bitplanes plus a height cache.   *)
(* The two objects share no state.  A behaviour follows one of them: the   *)
(* variable impl says which board the caller constructed, and the other    *)
(* board's variables stay at their constructed (empty) value.              *)
(*                                                                         *)
(* Spec      the callers' operations on either board: placements, gravity, *)
(*           clear, has_n_chain.                                           *)
(* ChainSpec execute_chains on a prepared SimpleBitBoardPuyoBoard, one     *)
(*           step per iteration of its loop.                               *)
(***************************************************************************)
EXTENDS Integers, Sequences, FiniteSets, TLC

VARIABLES impl, columns, bb, height, pc, chain_count, op, ret

vars == <<impl, columns, bb, height, pc, chain_count, op, ret>>

(***************************************************************************)
(* Program constants                                                       *)
(***************************************************************************)
COLS == 6
ROWS == 13

Empty == 0
Garbage == 1
Red == 2
Blue == 3
Green == 4
Yellow == 5
Purple == 6

(***************************************************************************)
(* Bounds of the model                                                     *)
(***************************************************************************)
\* Most non-Empty cells a board holds: a write that would exceed it is not
\* issued by the environment.
MaxPuyos == 3

\* has_n_chain is queried with the thresholds 2..MaxN.
MaxN == 3

Pos(x, y) == [x |-> x, y |-> y]

\* The positions place_puyo is called with: a column the caller fills freely,
\* the column of the game-over cell, and two positions off the board.
PlacePositions ==
    {Pos(0, r) : r \in 0..3} \cup {Pos(2, 11)} \cup {Pos(6, 0), Pos(0, 13)}

\* The colours place_puyo is called with.
PlaceColors == {Empty, Garbage, Red}

\* The arguments of the bitplane Board's calls: set_xy(x, y, state),
\* push_puyo(col, state).  Column 6 and row 13 are off the board; row 0 of a
\* column is reached by push_puyo and by gravity.
SetXs == {0, 1, 5, 6}
SetYs == {1, 12, 13}
PushCols == {0, 1, 5}
BoardStates == {Garbage, Red}

\* Arguments of the reads: one cell and one column of the board, and the
\* nearest ones outside it.
ReadPositions == {Pos(0, 0), Pos(6, 0), Pos(0, 13)}
ReadColumns == {0, 6}

\* The boards execute_chains is started on in ChainSpec: columns 0 and 1, rows
\* 0..3, each cell Empty, Garbage or a colour (Blue or Red in row 0, Red in rows 1
\* and 2, Blue in row 3).  place_puyo reaches every one of them from the empty board: none
\* of these cells is the game-over cell, so no placement is refused.
ChainColumns == {0, 1}
ChainRows == 0..3
ChainChoices(r) ==
    IF r = 0 THEN {Empty, Garbage, Blue, Red}
    ELSE IF r = 3 THEN {Empty, Garbage, Blue}
    ELSE {Empty, Garbage, Red}

(***************************************************************************)
(* core/src/types.rs                                                       *)
(***************************************************************************)
is_colored_puyo(color) == color \in {Red, Blue, Green, Yellow, Purple}

is_valid_board_position(pos) == pos.x < 6 /\ pos.y < 13

(***************************************************************************)
(* core/src/bitboard.rs: SimpleBitBoardPuyoBoard.                          *)
(* A column's u64 is modelled as its thirteen 3-bit fields, row 0 in the   *)
(* low bits: cols[column][row] is ((columns[column] >> 3*row) & 0b111).    *)
(* Bits 39..63 are never written (set_puyo_bits refuses row >= 13).        *)
(***************************************************************************)
new == [c \in 0..5 |-> [r \in 0..12 |-> 0]]

get_puyo_bits(cols, column, row) ==
    IF column >= 6 \/ row >= 13 THEN 0 ELSE cols[column][row]

set_puyo_bits(cols, column, row, color_bits) ==
    IF column >= 6 \/ row >= 13 THEN cols
    ELSE [cols EXCEPT ![column][row] = color_bits]

\* Index (0..2) of the highest set bit of a non-zero 3-bit field.
FieldMsb(f) == IF f >= 4 THEN 2 ELSE IF f >= 2 THEN 1 ELSE 0

\* 63 - leading_zeros: the highest set bit of the column word lies in the
\* highest non-zero field.
MsbIndex(column_data) ==
    LET top == CHOOSE r \in 0..12 :
                   /\ column_data[r] # 0
                   /\ \A q \in (r + 1)..12 : column_data[q] = 0
    IN  3 * top + FieldMsb(column_data[top])

\* Mutant: the height as a count of the non-zero fields.
get_column_height_count(cols, column) ==
    IF column >= 6 THEN 0
    ELSE Cardinality({r \in 0..12 : cols[column][r] # 0})

get_column_height(cols, column) ==
    IF column >= 6 THEN 0
    ELSE IF \A r \in 0..12 : cols[column][r] = 0 THEN 0
    ELSE (MsbIndex(cols[column]) \div 3) + 1

\* The neighbours pushed on the stack, in the order of the code.
Neighbours(col, row) ==
    (IF col > 0 THEN <<(<<col - 1, row>>)>> ELSE <<>>)
        \o (IF col < 5 THEN <<(<<col + 1, row>>)>> ELSE <<>>)
        \o (IF row > 0 THEN <<(<<col, row - 1>>)>> ELSE <<>>)
        \o (IF row < 12 THEN <<(<<col, row + 1>>)>> ELSE <<>>)

\* The while-let loop of find_connected_group: pop, test, mark, push.
RECURSIVE GroupLoop(_, _, _, _, _)
GroupLoop(cols, color, stack, visited, group) ==
    IF stack = <<>> THEN group
    ELSE LET top == stack[Len(stack)]
             rest == SubSeq(stack, 1, Len(stack) - 1)
             col == top[1]
             row == top[2]
         IN  IF col >= 6 \/ row >= 13 \/ top \in visited
             THEN GroupLoop(cols, color, rest, visited, group)
             ELSE IF get_puyo_bits(cols, col, row) # color
             THEN GroupLoop(cols, color, rest, visited, group)
             ELSE GroupLoop(cols, color, rest \o Neighbours(col, row),
                            visited \cup {top}, Append(group, Pos(col, row)))

find_connected_group(cols, start_col, start_row, color) ==
    GroupLoop(cols, color, <<(<<start_col, start_row>>)>>, {}, <<>>)

\* The for loop of apply_gravity_to_column over read_pos.  new_column starts
\* as 0 and write_pos only grows, so the OR writes a field that is still 0.
RECURSIVE GravityLoop(_, _, _, _, _)
GravityLoop(cols, column, read_pos, new_column, write_pos) ==
    IF read_pos >= 13 THEN new_column
    ELSE LET puyo_bits == get_puyo_bits(cols, column, read_pos)
         IN  IF puyo_bits # 0
             THEN GravityLoop(cols, column, read_pos + 1,
                              [new_column EXCEPT ![write_pos] = puyo_bits],
                              write_pos + 1)
             ELSE GravityLoop(cols, column, read_pos + 1, new_column, write_pos)

\* Mutant: the column is read from the top row down, so the order is reversed.
RECURSIVE GravityLoopDown(_, _, _, _, _)
GravityLoopDown(cols, column, read_pos, new_column, write_pos) ==
    IF read_pos < 0 THEN new_column
    ELSE LET puyo_bits == get_puyo_bits(cols, column, read_pos)
         IN  IF puyo_bits # 0
             THEN GravityLoopDown(cols, column, read_pos - 1,
                                  [new_column EXCEPT ![write_pos] = puyo_bits],
                                  write_pos + 1)
             ELSE GravityLoopDown(cols, column, read_pos - 1, new_column, write_pos)

apply_gravity_to_column_reversed(cols, column) ==
    IF column >= 6 THEN cols
    ELSE [cols EXCEPT ![column] =
              GravityLoopDown(cols, column, 12, [r \in 0..12 |-> 0], 0)]

\* Mutant: every puyo above an Empty cell falls by one row only.
apply_gravity_to_column_one_step(cols, column) ==
    IF column >= 6 THEN cols
    ELSE [cols EXCEPT ![column] = [r \in 0..12 |->
              IF cols[column][r] = 0
              THEN get_puyo_bits(cols, column, r + 1)
              ELSE IF r > 0 /\ cols[column][r - 1] = 0 THEN 0
              ELSE cols[column][r]]]

apply_gravity_to_column(cols, column) ==
    IF column >= 6 THEN cols
    ELSE [cols EXCEPT ![column] =
              GravityLoop(cols, column, 0, [r \in 0..12 |-> 0], 0)]

RECURSIVE GravityColumns(_, _)
GravityColumns(cols, column) ==
    IF column >= 6 THEN cols
    ELSE GravityColumns(apply_gravity_to_column(cols, column), column + 1)

apply_gravity(cols) == GravityColumns(cols, 0)

is_game_over(cols) == get_puyo_bits(cols, 2, 11) # 0

\* Mutant: the terminal check moved before the occupancy check.
place_puyo_terminal_first(cols, position, color) ==
    IF ~is_valid_board_position(position)
    THEN [ret |-> "OutOfBounds", columns |-> cols]
    ELSE IF is_game_over(cols)
    THEN [ret |-> "GameOver", columns |-> cols]
    ELSE IF get_puyo_bits(cols, position.x, position.y) # 0
    THEN [ret |-> "PositionOccupied", columns |-> cols]
    ELSE [ret |-> "Ok",
          columns |-> set_puyo_bits(cols, position.x, position.y, color)]

place_puyo(cols, position, color) ==
    IF ~is_valid_board_position(position)
    THEN [ret |-> "OutOfBounds", columns |-> cols]
    ELSE IF get_puyo_bits(cols, position.x, position.y) # 0
    THEN [ret |-> "PositionOccupied", columns |-> cols]
    ELSE IF is_game_over(cols)
    THEN [ret |-> "GameOver", columns |-> cols]
    ELSE [ret |-> "Ok",
          columns |-> set_puyo_bits(cols, position.x, position.y, color)]

\* Option<PuyoColor>: <<>> is None, <<v>> is Some(v).
from_u8(value) == IF value <= 6 THEN <<value>> ELSE <<>>

get_puyo(cols, position) ==
    IF ~is_valid_board_position(position) THEN <<>>
    ELSE from_u8(get_puyo_bits(cols, position.x, position.y))

\* The u64 of a column as its thirteen fields; the all-zero word is the u64 0.
get_column_raw(cols, column) ==
    IF column >= 6 THEN [r \in 0..12 |-> 0] ELSE cols[column]

\* Mutant: groups of 3 are removed too.
to_remove_three(cols) ==
    UNION { LET puyo_bits == get_puyo_bits(cols, col, row)
                group == find_connected_group(cols, col, row, puyo_bits)
            IN  IF puyo_bits = 0 \/ puyo_bits = 1 THEN {}
                ELSE IF ~is_colored_puyo(puyo_bits) THEN {}
                ELSE IF Len(group) >= 3
                THEN {group[i] : i \in 1..Len(group)}
                ELSE {}
            : col \in 0..5, row \in 0..12 }

\* The scan of one round of execute_chains: the positions pushed on to_remove.
\* to_remove is a Vec that holds a group once per cell of the group; only its
\* set of positions is used (each is set to 0), so it is modelled as that set.
to_remove(cols) ==
    UNION { LET puyo_bits == get_puyo_bits(cols, col, row)
                group == find_connected_group(cols, col, row, puyo_bits)
            IN  IF puyo_bits = 0 \/ puyo_bits = 1 THEN {}
                ELSE IF ~is_colored_puyo(puyo_bits) THEN {}
                ELSE IF Len(group) >= 4
                THEN {group[i] : i \in 1..Len(group)}
                ELSE {}
            : col \in 0..5, row \in 0..12 }

\* for pos in to_remove { set_puyo_bits(pos.x, pos.y, 0) }
remove_all(cols, positions) ==
    [c \in 0..5 |-> [r \in 0..12 |->
        IF Pos(c, r) \in positions THEN 0 ELSE cols[c][r]]]

\* Number of non-Empty cells of the packed board (the environment's bound).
PuyoCount(cols) ==
    Cardinality({p \in (0..5) \X (0..12) : cols[p[1]][p[2]] # 0})

(***************************************************************************)
(* src/bitboard.rs: BitBoard and Board.                                    *)
(* A u128 is modelled as the set of the indices (0..127) of its set bits,  *)
(* bit 13*column + row for a cell; a one-bit mask by the index of its bit. *)
(***************************************************************************)
Bits128 == 0..127

COL_MASKS == [c \in 0..5 |-> {i \in Bits128 : 13 * c <= i /\ i < 13 * (c + 1)}]

col_mask(col) == COL_MASKS[col]

LEFT_EDGE_MASK == COL_MASKS[0]

RIGHT_EDGE_MASK == COL_MASKS[5]

\* (self.0 << 13) & !LEFT_EDGE_MASK: bits shifted past bit 127 are lost.
shift_left(s) == {i + 13 : i \in {j \in s : j + 13 <= 127}} \ LEFT_EDGE_MASK

\* (self.0 >> 13) & !RIGHT_EDGE_MASK
shift_right(s) == {i - 13 : i \in {j \in s : j >= 13}} \ RIGHT_EDGE_MASK

\* self.0 << 1
shift_up(s) == {i + 1 : i \in {j \in s : j + 1 <= 127}}

\* self.0 >> 1
shift_down(s) == {i - 1 : i \in {j \in s : j >= 1}}

RECURSIVE flood_fill(_, _)
flood_fill(seed, occ) ==
    LET grp == seed
        expanded == (shift_left(grp) \cup shift_right(grp)
                        \cup shift_up(grp) \cup shift_down(grp)) \cap occ
        nxt == grp \cup expanded
    IN  IF nxt = grp THEN grp ELSE flood_fill(nxt, occ)

\* rem.0 & (!rem.0 + 1): the lowest set bit.
Lsb(s) == CHOOSE i \in s : \A j \in s : i <= j

RECURSIVE ComponentLoop(_, _, _)
ComponentLoop(rem, occ, k) ==
    IF rem = {} THEN FALSE
    ELSE LET grp == flood_fill({Lsb(rem)}, occ)
         IN  IF Cardinality(grp) >= k THEN TRUE
             ELSE ComponentLoop(rem \ grp, occ, k)

has_component_at_least(plane, k) == ComponentLoop(plane, plane, k)

occupancy(planes) == UNION {planes[s] : s \in 1..6}

has_n_chain(planes, n) ==
    \E color \in 2..6 : has_component_at_least(planes[color], n)

\* Option<u128>: <<>> is None, <<i>> is Some(1 << i).
top_bit(hs, col) ==
    LET h == hs[col]
    IN  IF h >= ROWS THEN <<>> ELSE <<col * ROWS + h>>

\* The first plane that holds the bit, 0 when none does.
state_at(planes, bit) ==
    IF \E i \in 0..6 : bit \in planes[i]
    THEN CHOOSE i \in 0..6 : bit \in planes[i] /\ \A j \in 0..(i - 1) : bit \notin planes[j]
    ELSE 0

\* Mutant: the height cache as 1 + the highest occupied row of the column.
set_state_top(planes, hs, bit, state) ==
    LET col == bit \div ROWS
        erased == [s \in 0..6 |-> planes[s] \ {bit}]
        written == IF state # 0
                   THEN [erased EXCEPT ![state] = @ \cup {bit}]
                   ELSE erased
        col_occ == IF col >= COLS THEN {} ELSE occupancy(written) \cap col_mask(col)
    IN  IF col >= COLS
        THEN [bb |-> written, height |-> hs, panic |-> TRUE]
        ELSE [bb |-> written,
              height |-> [hs EXCEPT ![col] =
                  IF col_occ = {} THEN 0
                  ELSE ((CHOOSE i \in col_occ : \A j \in col_occ : j <= i) % ROWS) + 1],
              panic |-> FALSE]

\* set_state erases the bit from every plane, sets it in plane `state`, and only
\* then indexes COL_MASKS[col]: for a bit of index 78 or more col is 6 or more
\* and the index panics, after the planes were written.
set_state(planes, hs, bit, state) ==
    LET col == bit \div ROWS
        erased == [s \in 0..6 |-> planes[s] \ {bit}]
        written == IF state # 0
                   THEN [erased EXCEPT ![state] = @ \cup {bit}]
                   ELSE erased
    IN  IF col >= COLS
        THEN [bb |-> written, height |-> hs, panic |-> TRUE]
        ELSE [bb |-> written,
              height |-> [hs EXCEPT ![col] =
                  Cardinality(occupancy(written) \cap col_mask(col))],
              panic |-> FALSE]

push_puyo(planes, hs, col, state) ==
    LET bit == top_bit(hs, col)
    IN  IF bit # <<>>
        THEN [ret |-> TRUE] @@ set_state(planes, hs, bit[1], state)
        ELSE [ret |-> FALSE, bb |-> planes, height |-> hs, panic |-> FALSE]

\* The bounds check is commented out in the source (line 192).
set_xy(planes, hs, x, y, state) ==
    LET bit == x * ROWS + y
    IN  IF bit \in occupancy(planes)
        THEN [ret |-> FALSE, bb |-> planes, height |-> hs, panic |-> FALSE]
        ELSE [ret |-> TRUE] @@ set_state(planes, hs, bit, state)

\* The portable fallback of Board::apply_gravity: the loop over the rows of
\* one column, then height[col] = cursor.
RECURSIVE BoardGravityRows(_, _, _, _)
BoardGravityRows(b, col, row, cursor) ==
    IF row >= ROWS THEN [bb |-> b.bb, height |-> [b.height EXCEPT ![col] = cursor]]
    ELSE LET bit == col * ROWS + row
             st == state_at(b.bb, bit)
         IN  IF st # 0
             THEN LET erased == set_state(b.bb, b.height, bit, 0)
                      moved == set_state(erased.bb, erased.height,
                                         col * ROWS + cursor, st)
                  IN  BoardGravityRows([bb |-> moved.bb, height |-> moved.height],
                                       col, row + 1, cursor + 1)
             ELSE BoardGravityRows(b, col, row + 1, cursor)

RECURSIVE BoardGravityColumns(_, _)
BoardGravityColumns(b, col) ==
    IF col >= COLS THEN b
    ELSE BoardGravityColumns(BoardGravityRows(b, col, 0, 0), col + 1)

Board_apply_gravity(planes, hs) ==
    BoardGravityColumns([bb |-> planes, height |-> hs], 0)

(***************************************************************************)
(* The BMI2 branch of Board::apply_gravity.  A u64 is the set of the        *)
(* indices of its one bits.                                                *)
(***************************************************************************)
\* (1u64 << cnt) - 1
LowOnes(cnt) == 0..(cnt - 1)

\* s << n on a u64, for n < 64: bits shifted past bit 63 are lost.
U64Shl(s, n) == {i + n : i \in {j \in s : j + n <= 63}}

\* u64::trailing_zeros: 64 for the word 0.
trailing_zeros(s) == IF s = {} THEN 64 ELSE Lsb(s)

\* Number of mask bits below position p.
Rank(mask, p) == Cardinality({q \in mask : q < p})

\* _pext_u64: the bits of src at the positions of mask, packed into the low bits.
pext(src, mask) == {Rank(mask, p) : p \in src \cap mask}

\* _pdep_u64: the low bits of src, deposited at the positions of mask.
pdep(src, mask) == {p \in mask : Rank(mask, p) \in src}

\* The first loop over the states 6..1 of one column, building `stack`.
\* `<< stack.trailing_zeros()` shifts by 64 when stack is 0: with overflow
\* checks (debug profile) that panics, without them the amount wraps to 0.
RECURSIVE Bmi2Stack(_, _, _, _, _)
Bmi2Stack(planes, col, state, stack, overflow_checks) ==
    IF state < 1 THEN [panic |-> FALSE, stack |-> stack]
    ELSE LET slice == {i - col * 13 : i \in planes[state] \cap COL_MASKS[col]}
             cnt == Cardinality(slice)
             packed == pext(slice, LowOnes(13))
             tz == trailing_zeros(stack)
         IN  IF tz >= 64 /\ overflow_checks
             THEN [panic |-> TRUE, stack |-> stack]
             ELSE Bmi2Stack(planes, col, state - 1,
                            stack \cup pdep(packed, U64Shl(LowOnes(cnt), tz % 64)),
                            overflow_checks)

\* The second loop over the states 6..1: write `stack` back from the cursor.
RECURSIVE Bmi2WriteBack(_, _, _, _, _)
Bmi2WriteBack(planes, col, state, stack, cursor) ==
    IF state < 1 THEN [bb |-> planes, cursor |-> cursor]
    ELSE LET bits == {i - cursor : i \in stack \cap U64Shl(LowOnes(13), cursor)}
             cnt == Cardinality(bits)
         IN  IF cnt > 0
             THEN Bmi2WriteBack(
                      [planes EXCEPT ![state] =
                           @ \cup {k + cursor + col * 13 : k \in LowOnes(cnt)}],
                      col, state - 1, stack, cursor + cnt)
             ELSE Bmi2WriteBack(planes, col, state - 1, stack, cursor)

RECURSIVE Bmi2Columns(_, _, _)
Bmi2Columns(b, col, overflow_checks) ==
    IF col >= COLS THEN [bb |-> b.bb, height |-> b.height, panic |-> FALSE]
    ELSE LET st == Bmi2Stack(b.bb, col, 6, {}, overflow_checks)
             cleared == [s \in 0..6 |-> b.bb[s] \ COL_MASKS[col]]
             w == Bmi2WriteBack(cleared, col, 6, st.stack, 0)
         IN  IF st.panic
             THEN [bb |-> b.bb, height |-> b.height, panic |-> TRUE]
             ELSE Bmi2Columns([bb |-> w.bb,
                               height |-> [b.height EXCEPT ![col] = w.cursor]],
                              col + 1, overflow_checks)

Board_apply_gravity_bmi2(planes, hs, overflow_checks) ==
    Bmi2Columns([bb |-> planes, height |-> hs], 0, overflow_checks)

\* self.height[col]: the index panics for col >= 6.
col_height(hs, col) ==
    IF col >= COLS THEN [panic |-> TRUE, height |-> 0]
    ELSE [panic |-> FALSE, height |-> hs[col]]

\* Number of occupied cells of the bitplane board (the environment's bound).
BitCount(planes) == Cardinality(occupancy(planes))

(***************************************************************************)
(* Initial state: both boards as constructed, nothing called yet.          *)
(***************************************************************************)
EmptyPlanes == [s \in 0..6 |-> {}]

Init ==
    /\ impl \in {"simple", "bitplane"}
    /\ columns = new
    /\ bb = EmptyPlanes
    /\ height = [c \in 0..5 |-> 0]
    /\ pc = "idle"
    /\ chain_count = 0
    /\ op = "new"
    /\ ret = "none"

(***************************************************************************)
(* Operations on SimpleBitBoardPuyoBoard                                   *)
(***************************************************************************)
PlacePuyo(position, color) ==
    /\ impl = "simple"
    /\ pc = "idle"
    /\ op' = "place_puyo"
    /\ LET r == place_puyo(columns, position, color)
       IN  /\ PuyoCount(r.columns) <= MaxPuyos
           /\ columns' = r.columns
           /\ ret' = r.ret
    /\ UNCHANGED <<impl, bb, height, pc, chain_count>>

ApplyGravity ==
    /\ impl = "simple"
    /\ pc = "idle"
    /\ columns' = apply_gravity(columns)
    /\ op' = "apply_gravity"
    /\ ret' = "none"
    /\ UNCHANGED <<impl, bb, height, pc, chain_count>>

\* execute_chains: ChainInfo::new(), then the loop.
ExecuteChains ==
    /\ impl = "simple"
    /\ pc = "idle"
    /\ pc' = "resolving"
    /\ chain_count' = 0
    /\ op' = "execute_chains"
    /\ ret' = "none"
    /\ UNCHANGED <<impl, columns, bb, height>>

\* Mutant: a round that forgets chain_info.add_chain().
ChainRound_no_add_chain ==
    /\ impl = "simple"
    /\ pc = "resolving"
    /\ to_remove(columns) # {}
    /\ columns' = apply_gravity(remove_all(columns, to_remove(columns)))
    /\ UNCHANGED <<impl, bb, height, pc, chain_count, op, ret>>

\* One iteration that finds something to remove: clear, add_chain, gravity.
ChainRound ==
    /\ impl = "simple"
    /\ pc = "resolving"
    /\ to_remove(columns) # {}
    /\ columns' = apply_gravity(remove_all(columns, to_remove(columns)))
    /\ chain_count' = chain_count + 1
    /\ UNCHANGED <<impl, bb, height, pc, op, ret>>

\* The iteration that finds nothing: break, return chain_info.
ChainSettle ==
    /\ impl = "simple"
    /\ pc = "resolving"
    /\ to_remove(columns) = {}
    /\ pc' = "idle"
    /\ ret' = chain_count
    /\ UNCHANGED <<impl, columns, bb, height, chain_count, op>>

Clear ==
    /\ impl = "simple"
    /\ pc = "idle"
    /\ columns' = new
    /\ op' = "clear"
    /\ ret' = "none"
    /\ UNCHANGED <<impl, bb, height, pc, chain_count>>

GetPuyo(position) ==
    /\ impl = "simple"
    /\ pc = "idle"
    /\ op' = "get_puyo"
    /\ ret' = get_puyo(columns, position)
    /\ UNCHANGED <<impl, columns, bb, height, pc, chain_count>>

GetColumnHeight(column) ==
    /\ impl = "simple"
    /\ pc = "idle"
    /\ op' = "get_column_height"
    /\ ret' = get_column_height(columns, column)
    /\ UNCHANGED <<impl, columns, bb, height, pc, chain_count>>

GetColumnRaw(column) ==
    /\ impl = "simple"
    /\ pc = "idle"
    /\ op' = "get_column_raw"
    /\ ret' = get_column_raw(columns, column)
    /\ UNCHANGED <<impl, columns, bb, height, pc, chain_count>>

(***************************************************************************)
(* Operations on the bitplane Board                                        *)
(***************************************************************************)
ColHeight(col) ==
    /\ impl = "bitplane"
    /\ pc = "idle"
    /\ op' = "col_height"
    /\ LET r == col_height(height, col)
       IN  /\ pc' = IF r.panic THEN "panicked" ELSE "idle"
           /\ ret' = IF r.panic THEN "panic" ELSE r.height
    /\ UNCHANGED <<impl, columns, bb, height, chain_count>>

BoardResult(r) ==
    /\ bb' = r.bb
    /\ height' = r.height
    /\ pc' = IF r.panic THEN "panicked" ELSE "idle"

SetXY(x, y, state) ==
    /\ impl = "bitplane"
    /\ pc = "idle"
    /\ op' = "set_xy"
    /\ LET r == set_xy(bb, height, x, y, state)
       IN  /\ BitCount(r.bb) <= MaxPuyos
           /\ BoardResult(r)
           /\ ret' = IF r.panic THEN "panic" ELSE r.ret
    /\ UNCHANGED <<impl, columns, chain_count>>

PushPuyo(col, state) ==
    /\ impl = "bitplane"
    /\ pc = "idle"
    /\ op' = "push_puyo"
    /\ LET r == push_puyo(bb, height, col, state)
       IN  /\ BitCount(r.bb) <= MaxPuyos
           /\ BoardResult(r)
           /\ ret' = IF r.panic THEN "panic" ELSE r.ret
    /\ UNCHANGED <<impl, columns, chain_count>>

BoardApplyGravity ==
    /\ impl = "bitplane"
    /\ pc = "idle"
    /\ LET r == Board_apply_gravity(bb, height)
       IN  /\ bb' = r.bb
           /\ height' = r.height
    /\ op' = "apply_gravity"
    /\ ret' = "none"
    /\ UNCHANGED <<impl, columns, pc, chain_count>>

\* apply_gravity as built for x86_64 with the bmi2 target feature, with or
\* without overflow checks.
BoardApplyGravityBmi2(overflow_checks) ==
    /\ impl = "bitplane"
    /\ pc = "idle"
    /\ op' = "apply_gravity_bmi2"
    /\ LET r == Board_apply_gravity_bmi2(bb, height, overflow_checks)
       IN  /\ BoardResult(r)
           /\ ret' = IF r.panic THEN "panic" ELSE "none"
    /\ UNCHANGED <<impl, columns, chain_count>>

HasNChain(n) ==
    /\ impl = "bitplane"
    /\ pc = "idle"
    /\ op' = "has_n_chain"
    /\ ret' = <<n, has_n_chain(bb, n)>>
    /\ UNCHANGED <<impl, columns, bb, height, pc, chain_count>>

Next ==
    \/ \E position \in PlacePositions, color \in PlaceColors :
           PlacePuyo(position, color)
    \/ ApplyGravity
    \/ Clear
    \/ \E x \in SetXs, y \in SetYs, state \in BoardStates : SetXY(x, y, state)
    \/ \E col \in PushCols, state \in BoardStates : PushPuyo(col, state)
    \/ BoardApplyGravity
    \/ \E n \in 2..MaxN : HasNChain(n)
    \/ \E position \in ReadPositions : GetPuyo(position)
    \/ \E column \in ReadColumns : GetColumnHeight(column)
    \/ \E column \in ReadColumns : GetColumnRaw(column)
    \/ \E col \in ReadColumns : ColHeight(col)

Spec == Init /\ [][Next]_vars

(***************************************************************************)
(* The chain driver on its own: execute_chains started on a prepared board, *)
(* one step per iteration of its loop.                                      *)
(***************************************************************************)
ChainBoards ==
    { [c \in 0..5 |-> [r \in 0..12 |->
          IF c \in ChainColumns /\ r \in ChainRows THEN f[c][r] ELSE 0]] :
      f \in [ChainColumns -> {g \in [ChainRows -> 0..6] :
                                \A r \in ChainRows : g[r] \in ChainChoices(r)}] }

ChainInit ==
    /\ impl = "simple"
    /\ columns \in ChainBoards
    /\ bb = EmptyPlanes
    /\ height = [c \in 0..5 |-> 0]
    /\ pc = "idle"
    /\ chain_count = 0
    /\ op = "place_puyo"
    /\ ret = "Ok"

ChainNext ==
    \/ ExecuteChains
    \/ ChainRound
    \/ ChainSettle

ChainSpec ==
    ChainInit /\ [][ChainNext]_vars

(***************************************************************************)
(* Vocabulary of the properties: the board as a grid of cell states, read  *)
(* straight from the representation, and the rules of the game stated on   *)
(* that grid.                                                              *)
(***************************************************************************)
AllCells == (0..5) \X (0..12)

\* Column c of the packed board, bottom to top, as a sequence of 13 states.
ColSeq(cols, c) == [i \in 1..13 |-> cols[c][i - 1]]

NonEmpty(seq) == SelectSeq(seq, LAMBDA v : v # 0)

\* A column's states packed to the bottom in the same order, Empty above.
Compacted(seq) ==
    LET ne == NonEmpty(seq)
    IN  [i \in 1..13 |-> IF i <= Len(ne) THEN ne[i] ELSE 0]

\* No Empty cell below a non-Empty one.
Stacked(seq) == \A i \in 1..12 : seq[i] = 0 => seq[i + 1] = 0

\* Up/down/left/right neighbours on the 6 x 13 grid.
Adjacent(p, q) ==
    \/ p[1] = q[1] /\ (p[2] = q[2] + 1 \/ q[2] = p[2] + 1)
    \/ p[2] = q[2] /\ (p[1] = q[1] + 1 \/ q[1] = p[1] + 1)

\* The maximal connected group of p among the cells of `members`.
RECURSIVE Grow(_, _)
Grow(group, members) ==
    LET more == {q \in members \ group : \E p \in group : Adjacent(p, q)}
    IN  IF more = {} THEN group ELSE Grow(group \cup more, members)

GroupOf(p, members) == Grow({p}, members)

\* The cells of the packed board that hold state v.
CellsOf(cols, v) == {p \in AllCells : cols[p[1]][p[2]] = v}

\* The cells in a same-colour group of 4 or more.
Removable(cols) ==
    UNION { {p \in CellsOf(cols, v) : Cardinality(GroupOf(p, CellsOf(cols, v))) >= 4}
            : v \in Red..Purple }

(***************************************************************************)
(* C1                                                                      *)
(***************************************************************************)
\* What C1 says a call place_puyo(pos, color) on board `before` must do.
PlaceContract(before, pos, color, result, after) ==
    IF pos.x >= 6 \/ pos.y >= 13
    THEN result = "OutOfBounds" /\ after = before
    ELSE IF before[pos.x][pos.y] # Empty
    THEN result = "PositionOccupied" /\ after = before
    ELSE IF before[2][11] # Empty
    THEN result = "GameOver" /\ after = before
    ELSE /\ result = "Ok"
         /\ get_puyo(after, pos) = <<color>>
         /\ \A p \in AllCells :
                p # <<pos.x, pos.y>> => after[p[1]][p[2]] = before[p[1]][p[2]]

\* C1: every place_puyo step decides in the order bounds, occupancy, terminal:
\* OutOfBounds off the board, else PositionOccupied on a non-Empty cell (also
\* on a terminal board), else GameOver when (2,11) is non-Empty, else Ok with
\* the colour written to that one cell; the three errors leave the board as
\* it was.
C1_PlaceOrder ==
    [][\A position \in PlacePositions, color \in PlaceColors :
           PlacePuyo(position, color) =>
               PlaceContract(columns, position, color, ret', columns')]_vars

\* C1 witness: a placement at an Empty cell of a terminal board was refused.
C1_Witness ==
    /\ impl = "simple"
    /\ op = "place_puyo"
    /\ ret = "GameOver"
    /\ columns[2][11] # Empty
    /\ \E p \in AllCells : columns[p[1]][p[2]] = Empty

(***************************************************************************)
(* C2                                                                      *)
(***************************************************************************)
\* Column c of the packed board with the cells of `gone` taken out.
Without(cols, gone, c) ==
    [i \in 1..13 |-> IF <<c, i - 1>> \in gone THEN 0 ELSE cols[c][i - 1]]

\* C2: a round of execute_chains empties exactly the cells that belong, on the
\* board at the start of the round, to a same-colour (Red..Purple) group of 4
\* or more; every other cell (groups of 3 or fewer, all Garbage) keeps its
\* state and is only moved down its own column by gravity.
C2_RoundClearsGroups ==
    [][chain_count' = chain_count + 1 =>
           \A c \in 0..5 :
               ColSeq(columns', c) = Compacted(Without(columns, Removable(columns), c))]_vars

\* C2 witness: a round has run and left Garbage and a coloured cell behind.
C2_Witness ==
    /\ pc = "resolving"
    /\ chain_count = 1
    /\ CellsOf(columns, Garbage) # {}
    /\ CellsOf(columns, Red) \cup CellsOf(columns, Blue) # {}

(***************************************************************************)
(* C3                                                                      *)
(***************************************************************************)
\* execute_chains is a synchronous loop: a run that has entered it keeps taking
\* steps.  Progress says so of a behaviour (it never halts for good), and is
\* the only fairness the termination property assumes.
Progress == []<><<TRUE>>_vars

\* C3: execute_chains terminates; it starts counting at 0, every iteration
\* that finds a group of 4 or more is one clear-then-gravity round and adds
\* exactly 1, the iteration that finds none returns the count (so 0 when the
\* first scan finds none, 2 or more when a round leaves a new group behind);
\* the returned board has no same-colour group of 4 or more.
C3_ChainsTerminate ==
    /\ Progress => ((pc = "resolving") ~> (pc = "idle"))
    /\ [][pc = "idle" /\ pc' = "resolving" =>
              chain_count' = 0 /\ columns' = columns]_vars
    /\ [][pc = "resolving" =>
              IF Removable(columns) = {}
              THEN pc' = "idle" /\ ret' = chain_count /\ columns' = columns
              ELSE /\ pc' = "resolving"
                   /\ chain_count' = chain_count + 1
                   /\ columns' # columns]_vars
    /\ [](op = "execute_chains" /\ pc = "idle" => Removable(columns) = {})

\* C3 witness: execute_chains returned a chain of 2 or more.
C3_Witness ==
    /\ op = "execute_chains"
    /\ pc = "idle"
    /\ ret >= 2
    /\ Removable(columns) = {}

(***************************************************************************)
(* The grid of the bitplane Board                                          *)
(***************************************************************************)
\* The state of cell (c, r): the plane that holds its bit, Empty when none.
PlaneCell(planes, c, r) ==
    IF \E s \in 0..6 : (13 * c + r) \in planes[s]
    THEN CHOOSE s \in 0..6 : (13 * c + r) \in planes[s]
    ELSE Empty

PlaneSeq(planes, c) == [i \in 1..13 |-> PlaneCell(planes, c, i - 1)]

\* Each bit is set in at most one plane.
Exclusive(planes) ==
    \A s, t \in 0..6 : s # t => planes[s] \cap planes[t] = {}

(***************************************************************************)
(* C4                                                                      *)
(***************************************************************************)
\* C4: apply_gravity is a stable compaction of every column: the non-Empty
\* states of the column, in their bottom-to-top order, land in rows 0..k-1,
\* rows k..12 are Empty, the column height is k, and no cell changes column
\* (both for SimpleBitBoardPuyoBoard and for the portable path of Board).
C4_StableCompaction ==
    [][op' = "apply_gravity" =>
           \A c \in 0..5 :
               IF impl = "simple"
               THEN /\ ColSeq(columns', c) = Compacted(ColSeq(columns, c))
                    /\ get_column_height(columns', c)
                           = Len(NonEmpty(ColSeq(columns, c)))
               ELSE /\ PlaneSeq(bb', c) = Compacted(PlaneSeq(bb, c))
                    /\ height'[c] = Len(NonEmpty(PlaneSeq(bb, c)))
                    /\ Exclusive(bb')]_vars

\* C4 witness: gravity has run and column 0 holds two different states, packed.
C4_Witness ==
    /\ impl = "simple"
    /\ op = "apply_gravity"
    /\ columns[0][0] # Empty
    /\ columns[0][1] # Empty
    /\ columns[0][0] # columns[0][1]
    /\ get_column_height(columns, 0) = 2

(***************************************************************************)
(* C6                                                                      *)
(***************************************************************************)
\* The cells of the 6 x 13 grid whose bit is set in plane v.
PlaneCells(planes, v) == {p \in AllCells : (13 * p[1] + p[2]) \in planes[v]}

\* Some colour plane holds a group of n or more cells joined by grid adjacency.
HasGroup(planes, n) ==
    \E v \in Red..Purple :
        \E p \in PlaneCells(planes, v) :
            Cardinality(GroupOf(p, PlaneCells(planes, v))) >= n

\* C6: has_n_chain(n) returns true if and only if some colour plane (2..6)
\* holds a maximal group of n or more cells connected through up/down/left/
\* right grid adjacency only: (c,12) is not adjacent to (c+1,0), column 5 is
\* not adjacent to column 0, Garbage and Empty never count.
C6_ChainIffGroup ==
    impl = "bitplane" /\ op = "has_n_chain" =>
        (ret[2] <=> HasGroup(bb, ret[1]))

(***************************************************************************)
(* C8                                                                      *)
(***************************************************************************)
\* C8: on the bitplane Board height[c] is the number of occupied cells of
\* column c (bits of planes 1..6 in the column), gaps or not.
C8_HeightIsCount ==
    impl = "bitplane" =>
        \A c \in 0..5 :
            height[c] = Cardinality({i \in occupancy(bb) : i \div 13 = c})

\* C8 witness: column 0 has its top cell occupied above an Empty bottom cell,
\* and height[0] counts the one cell.
C8_Witness ==
    /\ impl = "bitplane"
    /\ pc = "idle"
    /\ 12 \in occupancy(bb)
    /\ 0 \notin occupancy(bb)
    /\ height[0] = 1

(***************************************************************************)
(* C9                                                                      *)
(***************************************************************************)
\* C9: on the bitplane Board every cell has its bit in at most one of the 7
\* planes, plane 0 has no bit set, and no plane has a bit at index 78 or above.
C9_Exclusivity ==
    impl = "bitplane" =>
        /\ Exclusive(bb)
        /\ bb[0] = {}
        /\ \A s \in 0..6 : \A i \in bb[s] : i < 78

(***************************************************************************)
(* C10                                                                     *)
(***************************************************************************)
\* C10: set_xy(x, y, state) returns false and leaves every plane and height
\* as it was when x >= 6 or y >= 13 or cell (x,y) is occupied, and it never
\* writes a cell other than (x,y).
C10_SetXYRejects ==
    [][\A x \in SetXs, y \in SetYs, state \in BoardStates :
           SetXY(x, y, state) =>
               /\ (x >= 6 \/ y >= 13 \/ (13 * x + y) \in occupancy(bb)) =>
                      /\ pc' = "idle"
                      /\ ret' = FALSE
                      /\ bb' = bb
                      /\ height' = height
               /\ \A p \in AllCells :
                      p # <<x, y>> =>
                          PlaneCell(bb', p[1], p[2]) = PlaneCell(bb, p[1], p[2])]_vars

(***************************************************************************)
(* C7                                                                      *)
(***************************************************************************)
\* C7: apply_gravity is idempotent: on every board, applying it twice gives
\* the same cells and the same column heights as applying it once.
C7_GravityIdempotent ==
    /\ impl = "simple" =>
           apply_gravity(apply_gravity(columns)) = apply_gravity(columns)
    /\ impl = "bitplane" =>
           LET once == Board_apply_gravity(bb, height)
           IN  Board_apply_gravity(once.bb, once.height) = once

\* C7 witness: gravity has moved cells of a bitplane column down and is about
\* to be applied again.
C7_Witness ==
    /\ impl = "bitplane"
    /\ op = "apply_gravity"
    /\ {0, 1} \subseteq occupancy(bb)
    /\ height[0] = 2

(***************************************************************************)
(* C5                                                                      *)
(***************************************************************************)
\* C5 as claimed: get_column_height(c) is the number of non-Empty cells of
\* column c after any placements and gravity applications.
C5_HeightIsCount ==
    impl = "simple" =>
        \A c \in 0..5 :
            get_column_height(columns, c) = Len(NonEmpty(ColSeq(columns, c)))

\* 1 + the highest non-Empty row of the column, 0 for an empty column.
TopOf(seq) ==
    IF \A i \in 1..13 : seq[i] = 0 THEN 0
    ELSE CHOOSE i \in 1..13 : seq[i] # 0 /\ \A j \in (i + 1)..13 : seq[j] = 0

\* C5 amended: get_column_height(c) is 1 + the highest non-Empty row of column
\* c (0 for an empty column); it is the number of non-Empty cells exactly when
\* the column has no Empty cell below a non-Empty one.
C5_HeightIsTop ==
    impl = "simple" =>
        \A c \in 0..5 :
            /\ get_column_height(columns, c) = TopOf(ColSeq(columns, c))
            /\ (get_column_height(columns, c) = Len(NonEmpty(ColSeq(columns, c))))
                   <=> Stacked(ColSeq(columns, c))

\* C5 witness: after a successful placement above a gap the height of column 0
\* exceeds its number of non-Empty cells.
C5_Witness ==
    /\ impl = "simple"
    /\ op = "place_puyo"
    /\ ret = "Ok"
    /\ ~Stacked(ColSeq(columns, 0))
    /\ get_column_height(columns, 0) > Len(NonEmpty(ColSeq(columns, 0)))

(***************************************************************************)
(* The two branches of Board::apply_gravity on the same boards: the Boards *)
(* that set_xy builds by writing the cells of GravityCells.                *)
(***************************************************************************)
GravityCells == {<<0, 0>>, <<0, 1>>, <<0, 2>>, <<0, 12>>, <<1, 0>>, <<5, 12>>}

GravityStates == {Empty, Garbage, Red, Purple}

GravityPlanes(f) ==
    [s \in 0..6 |->
        IF s = 0 THEN {}
        ELSE {13 * p[1] + p[2] : p \in {q \in GravityCells : f[q] = s}}]

GravityInit ==
    /\ impl = "bitplane"
    /\ columns = new
    /\ \E f \in [GravityCells -> GravityStates] :
           /\ bb = GravityPlanes(f)
           /\ height = [c \in 0..5 |->
                  Cardinality({q \in GravityCells : q[1] = c /\ f[q] # Empty})]
    /\ pc = "idle"
    /\ chain_count = 0
    /\ op = "set_xy"
    /\ ret = TRUE

GravityNext ==
    \/ BoardApplyGravity
    \/ \E overflow_checks \in BOOLEAN : BoardApplyGravityBmi2(overflow_checks)

GravitySpec == GravityInit /\ [][GravityNext]_vars

(***************************************************************************)
(* C13                                                                     *)
(***************************************************************************)
\* C13: the BMI2 branch of Board::apply_gravity is observably equivalent to
\* the portable fallback: on every board satisfying exclusivity both produce
\* the same seven planes and the same height array.
C13_Bmi2Equivalent ==
    [][\A overflow_checks \in BOOLEAN :
           BoardApplyGravityBmi2(overflow_checks) /\ Exclusive(bb) =>
               LET portable == Board_apply_gravity(bb, height)
               IN  /\ pc' = "idle"
                   /\ bb' = portable.bb
                   /\ height' = portable.height]_vars

(***************************************************************************)
(* C11                                                                     *)
(***************************************************************************)
\* Option of the lowest Empty row of a column: <<>> when no cell is Empty.
LowestEmpty(seq) ==
    IF \A i \in 1..13 : seq[i] # 0 THEN <<>>
    ELSE <<(CHOOSE i \in 1..13 : seq[i] = 0 /\ \A j \in 1..(i - 1) : seq[j] # 0) - 1>>

\* What C11 says of one push_puyo(col, state) call from `before` to `after`.
PushContract(before, hs, col, state, result, after, hs_after) ==
    LET target == LowestEmpty(PlaneSeq(before, col))
    IN  IF target = <<>>
        THEN result = FALSE /\ after = before /\ hs_after = hs
        ELSE /\ result = TRUE
             /\ PlaneCell(after, col, target[1]) = state
             /\ Len(NonEmpty(PlaneSeq(after, col)))
                    = Len(NonEmpty(PlaneSeq(before, col))) + 1
             /\ \A p \in AllCells :
                    p # <<col, target[1]>> =>
                        PlaneCell(after, p[1], p[2]) = PlaneCell(before, p[1], p[2])
             /\ Stacked(PlaneSeq(before, col)) => Stacked(PlaneSeq(after, col))

\* C11: in every reachable state of the bitplane Board top_bit(col) is the
\* lowest Empty cell of column col (None iff the column has no Empty cell), and
\* push_puyo(col, s) writes s into that cell only: the occupied count of col
\* grows by one, every other cell is unchanged, a stacked column stays
\* stacked; it returns false with the board unchanged iff the column is full.
C11_PushOnTop ==
    /\ [](impl = "bitplane" /\ pc = "idle" =>
              \A col \in 0..5 :
                  LET target == LowestEmpty(PlaneSeq(bb, col))
                  IN  top_bit(height, col) =
                          IF target = <<>> THEN <<>> ELSE <<col * ROWS + target[1]>>)
    /\ [][\A col \in PushCols, state \in BoardStates :
              PushPuyo(col, state) =>
                  PushContract(bb, height, col, state, ret', bb', height')]_vars

(***************************************************************************)
(* C12                                                                     *)
(***************************************************************************)
\* C12: reads are total and never fail: for an out-of-range position get_puyo
\* yields Empty, for an out-of-range column get_column_height, Board::col_height
\* and get_column_raw yield 0, and no read changes the board.
C12_ReadsTotal ==
    [][/\ \A position \in ReadPositions :
              GetPuyo(position) =>
                  /\ columns' = columns
                  /\ ~is_valid_board_position(position) => ret' = <<Empty>>
       /\ \A column \in ReadColumns :
              GetColumnHeight(column) =>
                  /\ columns' = columns
                  /\ column >= 6 => ret' = 0
       /\ \A column \in ReadColumns :
              GetColumnRaw(column) =>
                  /\ columns' = columns
                  /\ column >= 6 => ret' = [r \in 0..12 |-> 0]
       /\ \A col \in ReadColumns :
              ColHeight(col) =>
                  /\ pc' = "idle"
                  /\ bb' = bb /\ height' = height
                  /\ col >= 6 => ret' = 0]_vars

====
